---- MODULE Spec2Model ----
(***************************************************************************)
(* A model of minigrep (src/minigrep/minigrep.cpp): the Range value type,  *)
(* the chunking of a file, the matcher with its prefix/suffix context, and *)
(* main, which launches one std::async task per chunk; the tasks print     *)
(* under one static mutex and main returns once every future is destroyed. *)
(*                                                                         *)
(* A std::string is a sequence of characters; a character is one of the    *)
(* TLA+ strings "a", "n", "t", "\\", "NL" (newline) and "TAB" (tab).       *)
(***************************************************************************)
EXTENDS Integers, Sequences, FiniteSets, TLC

VARIABLES
    argc,         \* main's argc
    pathKind,     \* what argv[1] names: "file", "dir" or "none"
    disk,         \* the regular files under argv[1]: <<[readable, data]>>
    string,       \* argv[2], the search string
    pc,           \* main's position: "start", "dispatch", "exited"
    all_chunks,   \* main's all_chunks vector
    launched,     \* how many futures main has pushed
    unit,         \* per chunk: the position of its async task
    all_matches,  \* per chunk: search()'s local all_matches
    mutex,        \* search()'s static mutex: 0 when free, else the holder
    out,          \* std::cout, a sequence of [unit, line], unit the writer
    err,          \* std::cerr, a sequence of messages
    status,       \* the exit status once pc = "exited"
    call          \* a call of one function on its own: its arguments and result

vars == <<argc, pathKind, disk, string, pc, all_chunks, launched, unit,
          all_matches, mutex, out, err, status, call>>

progVars == <<argc, pathKind, disk, string, pc, all_chunks, launched, unit,
              all_matches, mutex, out, err, status>>

(***************************************************************************)
(* Constants of the program and bounds of the model.                       *)
(***************************************************************************)
\* border_size, line 10.
border_size == 3

\* chunk_size is 1000000 at line 11; the model scales it down so that files
\* of a few bytes split into several chunks.
chunk_size == 4

\* The longest file argv[1] can name when it is a regular file.
MaxLen == 9

\* A directory holds at most MaxFiles regular files of at most MaxDirLen bytes.
MaxFiles == 2

MaxDirLen == 1

\* The longest search string.
MaxNeedle == 2

\* File sizes 0..MaxSize are chunked in SpecChunks.
MaxSize == 60

\* Range bounds run over -MaxCoord..MaxCoord in SpecClamp.
MaxCoord == 3

\* The longest string given to transform in SpecTransform.
MaxStr == 3

EXIT_SUCCESS == 0

EXIT_FAILURE == 1

\* std::string::npos, as the sentinel find returns.
npos == -1

Max(a, b) == IF a >= b THEN a ELSE b

Min(a, b) == IF a <= b THEN a ELSE b

(***************************************************************************)
(* struct Range                                                            *)
(***************************************************************************)
Range(b, e) == [begin |-> b, end |-> e]

ClampNoMin(r, min, max) == Range(r.begin, Min(r.end, max))

Clamp(r, min, max) == Range(Max(r.begin, min), Min(r.end, max))

Extend(r, amount) == Range(r.begin - amount, r.end + amount)

Size(r) == r.end - r.begin

\* std::nullopt is the empty sequence, a pair is a sequence of two ranges.
SplitLate(r) ==
    IF Size(r) <= chunk_size + 1
    THEN <<>>
    ELSE LET mid == r.begin + chunk_size + 1
         IN  <<Range(r.begin, mid), Range(mid, r.end)>>

Split(r) ==
    IF Size(r) <= chunk_size
    THEN <<>>
    ELSE LET mid == r.begin + chunk_size
         IN  <<Range(r.begin, mid), Range(mid, r.end)>>

(***************************************************************************)
(* struct File, struct FileChunk                                           *)
(***************************************************************************)
\* File(path): seekg to the end and tellg; on a stream that failed to open
\* tellg returns -1.
File(path) ==
    [path |-> path,
     size |-> IF disk[path].readable THEN Len(disk[path].data) ELSE -1]

FileChunk(file, search) ==
    [file |-> file, search |-> search,
     read |-> Clamp(Extend(search, border_size), 0, file.size),
     contents |-> <<>>]

\* fetch_contents: std::vector<char> buffer(read.size()) throws
\* std::length_error when read.size() is negative (it converts to a size_t
\* beyond max_size).
FetchThrows(chunk) == Size(chunk.read) < 0

FetchContents(chunk) ==
    [chunk EXCEPT !.contents =
        SubSeq(disk[chunk.file.path].data, chunk.read.begin + 1, chunk.read.end)]

(***************************************************************************)
(* std::string::substr and std::string::find.  The callers pass ints where *)
(* size_type is expected: a negative int converts to a value above every   *)
(* string length.                                                          *)
(***************************************************************************)
\* substr throws std::out_of_range when pos > size().
SubstrThrows(s, pos) == pos < 0 \/ pos > Len(s)

Substr(s, pos, count) ==
    LET rest == Len(s) - pos
        n    == IF count < 0 THEN rest ELSE Min(count, rest)
    IN  SubSeq(s, pos + 1, pos + n)

OccursAt(s, str, i) ==
    /\ i >= 0
    /\ i + Len(str) <= Len(s)
    /\ SubSeq(s, i + 1, i + Len(str)) = str

\* s.find(str, from): the least index >= from where str occurs, or npos.
Find(s, str, from) ==
    LET hits == {i \in 0..Len(s) : i >= from /\ OccursAt(s, str, i)}
    IN  IF from < 0 \/ hits = {} THEN npos
        ELSE CHOOSE i \in hits : \A j \in hits : i <= j

\* pos < n where pos is a size_t and n an int converted to size_t.
LessSizeT(pos, n) == n < 0 \/ pos < n

(***************************************************************************)
(* prefix, suffix, transform                                               *)
(***************************************************************************)
PrefixThrows(contents, index) ==
    SubstrThrows(contents, Max(index - border_size, 0))

Prefix(contents, index) ==
    LET offset == Max(index - border_size, 0)
        count  == index - offset
    IN  Substr(contents, offset, count)

SuffixThrows(contents, index) == SubstrThrows(contents, index)

Suffix(contents, index) == Substr(contents, index, border_size)

RECURSIVE TransformNoTab(_)
TransformNoTab(s) ==
    IF s = <<>> THEN <<>>
    ELSE (IF Head(s) = "NL" THEN <<"\\", "n">> ELSE <<Head(s)>>)
         \o TransformNoTab(Tail(s))

RECURSIVE Transform(_)
Transform(s) ==
    IF s = <<>> THEN <<>>
    ELSE (CASE Head(s) = "NL"  -> <<"\\", "n">>
            [] Head(s) = "TAB" -> <<"\\", "t">>
            [] OTHER           -> <<Head(s)>>)
         \o Transform(Tail(s))

(***************************************************************************)
(* matches                                                                 *)
(***************************************************************************)
Match(path, position, pre, suf) ==
    [path |-> path, position |-> position, prefix |-> pre, suffix |-> suf]

\* The lambda to_index of matches.
to_index(chunk, pos) == pos - chunk.read.begin

\* The loop of matches from the index pos that find returned.  The result is
\* [throws, result]: result is the vector returned, throws says that substr
\* threw std::out_of_range out of matches.
RECURSIVE MatchesLoop(_, _, _, _)
MatchesLoop(chunk, str, pos, result) ==
    IF pos = npos \/ ~LessSizeT(pos, to_index(chunk, chunk.search.end))
    THEN [throws |-> FALSE, result |-> result]
    ELSE LET pi == to_index(chunk, pos)
             si == to_index(chunk, pos + Len(str))
         IN  IF PrefixThrows(chunk.contents, pi) \/ SuffixThrows(chunk.contents, si)
             THEN [throws |-> TRUE, result |-> <<>>]
             ELSE MatchesLoop(chunk, str, Find(chunk.contents, str, pos + 1),
                      Append(result,
                             Match(chunk.file.path, pos,
                                   Transform(Prefix(chunk.contents, pi)),
                                   Transform(Suffix(chunk.contents, si)))))

Matches(chunk, str) ==
    MatchesLoop(chunk, str,
                Find(chunk.contents, str, to_index(chunk, chunk.search.begin)),
                <<>>)

(***************************************************************************)
(* files, chunks                                                           *)
(***************************************************************************)
\* files(path): std::nullopt (here <<>> with ok FALSE) when the path is
\* neither a regular file nor a directory, else a File per regular file.
FilesAlways(kind) ==
    [ok |-> TRUE, files |-> [p \in DOMAIN disk |-> File(p)]]

Files(kind) ==
    IF kind = "file" \/ kind = "dir"
    THEN [ok |-> TRUE, files |-> [p \in DOMAIN disk |-> File(p)]]
    ELSE [ok |-> FALSE, files |-> <<>>]

RECURSIVE ChunksLoop(_, _)
ChunksLoop(file, result) ==
    LET split_chunks == Split(result[Len(result)].search)
    IN  IF split_chunks = <<>> THEN result
        ELSE ChunksLoop(file,
                 Append([result EXCEPT ![Len(result)] = FileChunk(file, split_chunks[1])],
                        FileChunk(file, split_chunks[2])))

Chunks(file) == ChunksLoop(file, <<FileChunk(file, Range(0, file.size))>>)

RECURSIVE AllChunks(_)
AllChunks(fs) ==
    IF fs = <<>> THEN <<>> ELSE Chunks(Head(fs)) \o AllChunks(Tail(fs))

(***************************************************************************)
(* The inputs of a run.                                                    *)
(***************************************************************************)
FileAlphabet == {"a", "NL"}

RECURSIVE StringsOver(_, _)
StringsOver(alphabet, n) ==
    IF n = 0 THEN {<<>>}
    ELSE LET shorter == StringsOver(alphabet, n - 1)
         IN  shorter \cup {Append(s, c) : s \in {t \in shorter : Len(t) = n - 1},
                                          c \in alphabet}

DiskFile(data) == [readable |-> TRUE, data |-> data]

\* A regular file that cannot be opened for reading.
Unreadable == [readable |-> FALSE, data |-> <<>>]

SingleFiles ==
    {<<DiskFile(d)>> : d \in StringsOver(FileAlphabet, MaxLen)} \cup {<<Unreadable>>}

DirFiles == {DiskFile(d) : d \in StringsOver(FileAlphabet, MaxDirLen)} \cup {Unreadable}

Directories == UNION {[1..n -> DirFiles] : n \in 0..MaxFiles}

Needles == {[i \in 1..n |-> "a"] : n \in 1..MaxNeedle}

NoCall == [fn |-> "none"]

(***************************************************************************)
(* main                                                                    *)
(***************************************************************************)
Init ==
    /\ argc \in 2..4
    /\ pathKind \in {"file", "dir", "none"}
    /\ disk \in CASE pathKind = "file" -> SingleFiles
                  [] pathKind = "dir"  -> Directories
                  [] OTHER             -> {<<>>}
    /\ string \in Needles
    /\ pc = "start"
    /\ all_chunks = <<>>
    /\ launched = 0
    /\ unit = <<>>
    /\ all_matches = <<>>
    /\ mutex = 0
    /\ out = <<>>
    /\ err = <<>>
    /\ status = EXIT_SUCCESS
    /\ call = NoCall

ArgcAtLeast(n) == n >= 3

\* main's test argc != 3, negated.
ArgcOk(n) == n = 3

Exit(code, message) ==
    /\ pc' = "exited"
    /\ status' = code
    /\ err' = IF message = "" THEN err ELSE Append(err, message)

\* Lines 260-263.
UsageError ==
    /\ pc = "start"
    /\ ~ArgcOk(argc)
    /\ Exit(EXIT_FAILURE, "usage")
    /\ UNCHANGED <<argc, pathKind, disk, string, all_chunks, launched, unit,
                   all_matches, mutex, out, call>>

\* Lines 265-269.
InvalidPath ==
    /\ pc = "start"
    /\ ArgcOk(argc)
    /\ ~Files(pathKind).ok
    /\ Exit(EXIT_FAILURE, "path")
    /\ UNCHANGED <<argc, pathKind, disk, string, all_chunks, launched, unit,
                   all_matches, mutex, out, call>>

\* Lines 265-275: the files are chunked into all_chunks.
BuildChunks ==
    /\ pc = "start"
    /\ ArgcOk(argc)
    /\ Files(pathKind).ok
    /\ all_chunks' = AllChunks(Files(pathKind).files)
    /\ unit' = [i \in 1..Len(all_chunks') |-> "idle"]
    /\ all_matches' = [i \in 1..Len(all_chunks') |-> <<>>]
    /\ pc' = "dispatch"
    /\ UNCHANGED <<argc, pathKind, disk, string, launched, mutex, out, err,
                   status, call>>

CanLaunch == pc = "dispatch" /\ launched < Len(all_chunks)

\* Lines 278-279: one std::async(std::launch::async, search, chunk, argv[2]).
Launch ==
    /\ CanLaunch
    /\ launched' = launched + 1
    /\ unit' = [unit EXCEPT ![launched + 1] = "launched"]
    /\ UNCHANGED <<argc, pathKind, disk, string, pc, all_chunks, all_matches,
                   mutex, out, err, status, call>>

Finished(u) == u \in {"done", "fetch_fault", "match_fault"}

Faulted(u) == u \in {"fetch_fault", "match_fault"}

\* Every future has been pushed and the task of each has ended.
CanReturn ==
    /\ pc = "dispatch"
    /\ launched = Len(all_chunks)
    /\ \A i \in DOMAIN unit : Finished(unit[i])

\* A main that calls get() on every future: a stored exception is rethrown
\* and leaves main.
MainReturnGet ==
    /\ CanReturn
    /\ IF \E i \in DOMAIN unit : Faulted(unit[i])
       THEN Exit(EXIT_FAILURE, "terminate")
       ELSE Exit(EXIT_SUCCESS, "")
    /\ UNCHANGED <<argc, pathKind, disk, string, all_chunks, launched, unit,
                   all_matches, mutex, out, call>>

\* Line 280: main falls off its end.  The futures vector is destroyed first,
\* and the destructor of a future from std::async blocks until its task has
\* ended; an exception stored in the shared state is dropped with it.
MainReturn ==
    /\ CanReturn
    /\ Exit(EXIT_SUCCESS, "")
    /\ UNCHANGED <<argc, pathKind, disk, string, all_chunks, launched, unit,
                   all_matches, mutex, out, call>>

(***************************************************************************)
(* search, the body of one task                                            *)
(***************************************************************************)
\* Line 233.
Fetch(i) ==
    /\ unit[i] = "launched"
    /\ IF FetchThrows(all_chunks[i])
       THEN /\ unit' = [unit EXCEPT ![i] = "fetch_fault"]
            /\ UNCHANGED all_chunks
       ELSE /\ unit' = [unit EXCEPT ![i] = "fetched"]
            /\ all_chunks' = [all_chunks EXCEPT ![i] = FetchContents(all_chunks[i])]
    /\ UNCHANGED <<argc, pathKind, disk, string, pc, launched, all_matches,
                   mutex, out, err, status, call>>

\* Line 234.
Scan(i) ==
    /\ unit[i] = "fetched"
    /\ LET m == Matches(all_chunks[i], string)
       IN  IF m.throws
           THEN /\ unit' = [unit EXCEPT ![i] = "match_fault"]
                /\ UNCHANGED all_matches
           ELSE /\ unit' = [unit EXCEPT ![i] = "matched"]
                /\ all_matches' = [all_matches EXCEPT ![i] = m.result]
    /\ UNCHANGED <<argc, pathKind, disk, string, pc, all_chunks, launched,
                   mutex, out, err, status, call>>

CanLock(i) == unit[i] = "matched" /\ mutex = 0

LockUnguarded(i) ==
    /\ unit[i] = "matched"
    /\ mutex' = i
    /\ unit' = [unit EXCEPT ![i] = "printing"]
    /\ UNCHANGED <<argc, pathKind, disk, string, pc, all_chunks, launched,
                   all_matches, out, err, status, call>>

\* Line 236: std::lock_guard on the static mutex.
Lock(i) ==
    /\ CanLock(i)
    /\ mutex' = i
    /\ unit' = [unit EXCEPT ![i] = "printing"]
    /\ UNCHANGED <<argc, pathKind, disk, string, pc, all_chunks, launched,
                   all_matches, out, err, status, call>>

\* The lines unit i has written so far.
Printed(i) == Len(SelectSeq(out, LAMBDA l : l.unit = i))

\* Lines 237-238: one pass of the loop, one line to std::cout.
PrintLine(i) ==
    /\ unit[i] = "printing"
    /\ Printed(i) < Len(all_matches[i])
    /\ out' = Append(out, [unit |-> i, line |-> all_matches[i][Printed(i) + 1]])
    /\ UNCHANGED <<argc, pathKind, disk, string, pc, all_chunks, launched,
                   unit, all_matches, mutex, err, status, call>>

\* Line 239: search returns and the lock_guard releases the mutex.
Unlock(i) ==
    /\ unit[i] = "printing"
    /\ Printed(i) = Len(all_matches[i])
    /\ mutex' = 0
    /\ unit' = [unit EXCEPT ![i] = "done"]
    /\ UNCHANGED <<argc, pathKind, disk, string, pc, all_chunks, launched,
                   all_matches, out, err, status, call>>

Next ==
    \/ UsageError
    \/ InvalidPath
    \/ BuildChunks
    \/ Launch
    \/ MainReturn
    \/ \E i \in DOMAIN unit : Fetch(i)
    \/ \E i \in DOMAIN unit : Scan(i)
    \/ \E i \in DOMAIN unit : Lock(i)
    \/ \E i \in DOMAIN unit : PrintLine(i)
    \/ \E i \in DOMAIN unit : Unlock(i)

Spec == Init /\ [][Next]_vars

\* Some step of the program can be taken: main is before its argument
\* checks (one of UsageError, InvalidPath and BuildChunks applies), can
\* launch or return, or a task can take its next step.
CanStep ==
    \/ pc = "start"
    \/ CanLaunch
    \/ CanReturn
    \/ \E i \in DOMAIN unit :
          \/ unit[i] \in {"launched", "fetched", "printing"}
          \/ CanLock(i)

(***************************************************************************)
(* Single calls of Range::clamp, chunks and transform, on arguments drawn  *)
(* from bounded sets, with no run of main around them.                     *)
(***************************************************************************)
NoProgram ==
    /\ argc = 0
    /\ pathKind = "none"
    /\ disk = <<>>
    /\ string = <<>>
    /\ pc = "none"
    /\ all_chunks = <<>>
    /\ launched = 0
    /\ unit = <<>>
    /\ all_matches = <<>>
    /\ mutex = 0
    /\ out = <<>>
    /\ err = <<>>
    /\ status = EXIT_SUCCESS

Coords == (0 - MaxCoord)..MaxCoord

InitClamp ==
    /\ NoProgram
    /\ \E b, e, lo, hi \in Coords :
          call = [fn |-> "clamp", r |-> Range(b, e), min |-> lo, max |-> hi,
                  done |-> FALSE, out |-> Range(0, 0)]

CallClamp ==
    /\ call.fn = "clamp"
    /\ ~call.done
    /\ call' = [call EXCEPT !.done = TRUE,
                            !.out = Clamp(call.r, call.min, call.max)]
    /\ UNCHANGED progVars

SpecClamp == InitClamp /\ [][CallClamp]_vars

\* The sizes File can hold: a length, or -1 from a failed tellg.
InitChunks ==
    /\ NoProgram
    /\ \E n \in -1..MaxSize :
          call = [fn |-> "chunks", file |-> [path |-> 1, size |-> n],
                  done |-> FALSE, out |-> <<>>]

CallChunks ==
    /\ call.fn = "chunks"
    /\ ~call.done
    /\ call' = [call EXCEPT !.done = TRUE, !.out = Chunks(call.file)]
    /\ UNCHANGED progVars

SpecChunks == InitChunks /\ [][CallChunks]_vars

TransformAlphabet == {"a", "\\", "n", "NL", "TAB"}

InitTransform ==
    /\ NoProgram
    /\ \E s \in StringsOver(TransformAlphabet, MaxStr) :
          call = [fn |-> "transform", in |-> s, done |-> FALSE, out |-> <<>>]

CallTransform ==
    /\ call.fn = "transform"
    /\ ~call.done
    /\ call' = [call EXCEPT !.done = TRUE, !.out = Transform(call.in)]
    /\ UNCHANGED progVars

SpecTransform == InitTransform /\ [][CallTransform]_vars

(***************************************************************************)
(* What the properties below speak of.                                     *)
(***************************************************************************)
\* The bytes of the file chunk i belongs to.
Data(i) == disk[all_chunks[i].file.path].data

\* The offsets in chunk i's search interval where the search string occurs
\* in the file with its whole text inside the chunk's read interval.
Expected(i) ==
    {p \in 0..Len(Data(i)) :
        /\ all_chunks[i].search.begin <= p
        /\ p < all_chunks[i].search.end
        /\ OccursAt(Data(i), string, p)
        /\ p + Len(string) <= all_chunks[i].read.end}

\* The k-th least element of a set of integers.
Nth(S, k) == CHOOSE p \in S : Cardinality({q \in S : q < p}) = k - 1

Scanned(i) == unit[i] \in {"matched", "printing", "done"}

\* The lines of unit i in std::cout, in the order written.
LinesOf(i) ==
    LET mine == SelectSeq(out, LAMBDA l : l.unit = i)
    IN  [k \in 1..Len(mine) |-> mine[k].line]

\* The bytes [from, to) of a file.
Bytes(data, from, to) == SubSeq(data, from + 1, to)

(***************************************************************************)
(* Properties                                                              *)
(***************************************************************************)
\* C1: once the program has exited, every occurrence of the search string
\* whose start lies in a chunk's search interval and whose text lies inside
\* that chunk's read interval is reported by exactly one output line (the
\* file's path with the occurrence's offset), written by that chunk's unit:
\* every chunk, hence an occurrence starting at a split offset too.
C1_EachOccurrenceOnce ==
    pc = "exited" =>
        \A i \in DOMAIN all_chunks : \A p \in Expected(i) :
            LET lines == {k \in DOMAIN out :
                             /\ out[k].line.path = all_chunks[i].file.path
                             /\ out[k].line.position = p}
            IN  /\ Cardinality(lines) = 1
                /\ \A k \in lines : out[k].unit = i

\* C2: for a file size S >= 0, chunks returns a non-empty sequence whose
\* search intervals start at 0, end at S, are contiguous (each begins where
\* the one before ends), pairwise disjoint and left-to-right ordered, and are
\* each at most chunk_size long.
C2_ChunksPartition ==
    (call.fn = "chunks" /\ call.done /\ call.file.size >= 0) =>
        LET cs == call.out
            n  == Len(cs)
        IN  /\ n >= 1
            /\ cs[1].search.begin = 0
            /\ cs[n].search.end = call.file.size
            /\ \A i \in 1..n :
                  /\ cs[i].search.begin <= cs[i].search.end
                  /\ Size(cs[i].search) <= chunk_size
            /\ \A i \in 1..(n - 1) : cs[i + 1].search.begin = cs[i].search.end
            /\ \A i, j \in 1..n : i < j => cs[i].search.end <= cs[j].search.begin
            /\ \A p \in 0..(call.file.size - 1) :
                  Cardinality({i \in 1..n : cs[i].search.begin <= p
                                            /\ p < cs[i].search.end}) = 1

\* chunks has returned three chunks or more, the last one shorter than
\* chunk_size.
C2_SeveralChunks ==
    /\ call.fn = "chunks"
    /\ call.done
    /\ Len(call.out) >= 3
    /\ Size(call.out[Len(call.out)].search) < chunk_size

\* C3: the matches a unit has computed carry, in order, the absolute file
\* offsets of the occurrences its chunk is responsible for (read.begin plus
\* the index inside contents), whatever the chunk's read.begin.
C3_PositionAbsolute ==
    \A i \in DOMAIN all_chunks :
        Scanned(i) =>
            /\ Len(all_matches[i]) = Cardinality(Expected(i))
            /\ \A k \in DOMAIN all_matches[i] :
                  all_matches[i][k].position = Nth(Expected(i), k)

\* C4: computing the context never fails, and the k-th match of a chunk, at
\* absolute offset p, has as prefix the escaped file bytes
\* [max(p - border_size, read.begin), p) and as suffix the escaped file bytes
\* [p + len, min(p + len + border_size, read.end)).
C4_ContextBytes ==
    \A i \in DOMAIN all_chunks :
        /\ unit[i] # "match_fault"
        /\ Scanned(i) =>
              \A k \in DOMAIN all_matches[i] :
                  k <= Cardinality(Expected(i)) =>
                      LET p == Nth(Expected(i), k)
                          e == p + Len(string)
                          c == all_chunks[i]
                      IN  /\ all_matches[i][k].prefix =
                                Transform(Bytes(Data(i),
                                    Max(p - border_size, c.read.begin), p))
                          /\ all_matches[i][k].suffix =
                                Transform(Bytes(Data(i), e,
                                    Min(e + border_size, c.read.end)))

\* C5: the process has not exited while a launched unit is unfinished, and
\* when it has exited with success every chunk has been fetched and scanned
\* and its unit has written a line for each occurrence the chunk is
\* responsible for.
C5_AllReportedAtExit ==
    pc = "exited" =>
        /\ \A i \in DOMAIN unit : unit[i] # "idle" => Finished(unit[i])
        /\ status = EXIT_SUCCESS =>
              \A i \in DOMAIN all_chunks :
                  /\ unit[i] = "done"
                  /\ LinesOf(i) = all_matches[i]
                  /\ Len(LinesOf(i)) = Cardinality(Expected(i))

\* C6: at most one unit is writing to std::cout at a time and it is the
\* holder of the mutex; the lines of one unit are contiguous in the output
\* and in increasing position order, they are the unit's match list so far,
\* and only a unit that took the mutex has written anything.
C6_OutputSerialized ==
    /\ \A i, j \in DOMAIN unit :
          (unit[i] = "printing" /\ unit[j] = "printing") => i = j
    /\ \A i \in DOMAIN unit : unit[i] = "printing" => mutex = i
    /\ \A k, m \in DOMAIN out :
          (k < m /\ out[k].unit = out[m].unit) =>
              /\ \A x \in k..m : out[x].unit = out[k].unit
              /\ out[k].line.position < out[m].line.position
    /\ \A i \in DOMAIN unit :
          /\ LinesOf(i) = SubSeq(all_matches[i], 1, Len(LinesOf(i)))
          /\ unit[i] \notin {"printing", "done"} => LinesOf(i) = <<>>
          /\ unit[i] = "done" => LinesOf(i) = all_matches[i]

\* The program has exited after two units wrote, one of them more than one
\* line.
C6_TwoUnitsWrote ==
    \E i, j \in DOMAIN unit :
        /\ i # j
        /\ Len(LinesOf(i)) >= 2
        /\ Len(LinesOf(j)) >= 1
        /\ pc = "exited"

C8_TransformEscapes ==
    (call.fn = "transform" /\ call.done) =>
        LET s == call.in
            r == call.out
            special(c) == c \in {"NL", "TAB"}
            at(i) == i + Cardinality({j \in 1..(i - 1) : special(s[j])})
        IN  /\ Len(r) = Len(s) + Cardinality({j \in 1..Len(s) : special(s[j])})
            /\ \A i \in 1..Len(s) :
                  /\ s[i] = "NL" => (r[at(i)] = "\\" /\ r[at(i) + 1] = "n")
                  /\ s[i] = "TAB" => (r[at(i)] = "\\" /\ r[at(i) + 1] = "t")
                  /\ ~special(s[i]) => r[at(i)] = s[i]
            /\ \A k \in 1..Len(r) : ~special(r[k])

\* transform has been applied to tab, a, newline.
C8_MixedString ==
    /\ call.fn = "transform"
    /\ call.done
    /\ call.in = <<"TAB", "a", "NL">>

\* The prefix and suffix of every match computed or written hold no raw
\* newline or tab.
OutputEscaped ==
    /\ \A k \in DOMAIN out :
          \A c \in {"NL", "TAB"} :
              /\ \A x \in DOMAIN out[k].line.prefix : out[k].line.prefix[x] # c
              /\ \A x \in DOMAIN out[k].line.suffix : out[k].line.suffix[x] # c
    /\ \A i \in DOMAIN all_matches : \A k \in DOMAIN all_matches[i] :
          \A c \in {"NL", "TAB"} :
              /\ \A x \in DOMAIN all_matches[i][k].prefix :
                    all_matches[i][k].prefix[x] # c
              /\ \A x \in DOMAIN all_matches[i][k].suffix :
                    all_matches[i][k].suffix[x] # c

\* C9: a unit that faulted in fetch or in matching has written no line,
\* does not hold the mutex and has left nothing on std::cerr; the run goes on
\* to its exit, where the status is success and every other unit is done
\* with its whole match list written.
C9_FaultSwallowed ==
    /\ \A i \in DOMAIN unit :
          Faulted(unit[i]) => (LinesOf(i) = <<>> /\ mutex # i /\ err = <<>>)
    /\ (pc # "exited" /\ \E i \in DOMAIN unit : Faulted(unit[i])) => CanStep
    /\ (pc = "exited" /\ \E i \in DOMAIN unit : Faulted(unit[i])) =>
          /\ status = EXIT_SUCCESS
          /\ \A j \in DOMAIN unit :
                ~Faulted(unit[j]) =>
                    (unit[j] = "done" /\ LinesOf(j) = all_matches[j])

\* The program has exited after one unit threw in matches and another wrote
\* its matches.
C9_FaultBesideOutput ==
    /\ pc = "exited"
    /\ \E i, j \in DOMAIN unit :
          /\ unit[i] = "match_fault"
          /\ unit[j] = "done"
          /\ LinesOf(j) # <<>>

\* A unit faulted in fetch beside one that wrote its matches.
FetchFaultBesideOutput ==
    /\ pc = "exited"
    /\ \E i, j \in DOMAIN unit :
          /\ unit[i] = "fetch_fault"
          /\ unit[j] = "done"
          /\ LinesOf(j) # <<>>

\* C10 as claimed: for r with begin <= end and bounds lo <= hi,
\* c = r.clamp(lo, hi) is well formed, lies in [lo, hi) and lies in r.
C10_ClampWellFormed ==
    (call.fn = "clamp" /\ call.done
       /\ call.r.begin <= call.r.end /\ call.min <= call.max) =>
        LET c == call.out
        IN  /\ c.begin <= c.end
            /\ call.min <= c.begin
            /\ c.end <= call.max
            /\ call.r.begin <= c.begin
            /\ c.end <= call.r.end

\* C10 as amended: for r with begin <= end and bounds lo <= hi,
\* c = r.clamp(lo, hi) has lo <= c.begin, c.end <= hi, r.begin <= c.begin
\* and c.end <= r.end, and c.begin <= c.end exactly when r meets or touches
\* [lo, hi), that is r.begin <= hi and lo <= r.end.
C10_ClampBounds ==
    (call.fn = "clamp" /\ call.done
       /\ call.r.begin <= call.r.end /\ call.min <= call.max) =>
        LET c == call.out
        IN  /\ call.min <= c.begin
            /\ c.end <= call.max
            /\ call.r.begin <= c.begin
            /\ c.end <= call.r.end
            /\ (c.begin <= c.end) <=>
                  (call.r.begin <= call.max /\ call.min <= call.r.end)

\* clamp has been applied to a well-formed r lying wholly to the right of
\* [lo, hi), and its result has end < begin.
C10_RangeOutside ==
    /\ call.fn = "clamp"
    /\ call.done
    /\ call.r.begin <= call.r.end
    /\ call.min <= call.max
    /\ call.max < call.r.begin
    /\ call.out.end < call.out.begin

====
